---- MODULE Spec2Model ----
(***************************************************************************)
(* A model of mcp_mlb_statsapi/server.py: eight MCP tools, each a thin    *)
(* layer over the statsapi / pybaseball provider.  One call is served at  *)
(* a time: a tool handler runs to completion (pc = "done") and the host   *)
(* runtime then hands the result back (pc = "idle").  The provider's      *)
(* responses and the system clock are inputs of the environment.          *)
(***************************************************************************)
EXTENDS Integers, Sequences, FiniteSets, TLC

\* ----------------------------------------------------------------- bounds
\* Longest schedule the provider returns to get_mlb_schedule / mlb_team_result.
MaxGames == 2
\* Longest schedule the provider returns to get_daily_results.
MaxDailyGames == 3
\* Longest team list the provider returns to lookup_team.
MaxTeams == 2
\* The clock runs over the days 0 .. MaxDay.
MaxDay == 1

\* ----------------------------------------------------------- Python values
\* An optional argument: None, or a one-element tuple holding the value.
None == <<>>
Some(v) == <<v>>
\* The None a dict-valued expression may evaluate to.
PyNone == [pynone |-> TRUE]

\* How a handler ends.
Return(v) == [kind |-> "return", val |-> v]
ReturnNone == [kind |-> "None"]
Raise(e) == [kind |-> "raise", exc |-> e]

\* A provider response: a value, or an exception raised by the provider.
Ok(v) == [ok |-> TRUE, val |-> v]
Fail == [ok |-> FALSE, exc |-> "ProviderError"]

\* Python truthiness of a dict-or-None value: None and {} are falsy.
Truthy(x) == x # PyNone /\ DOMAIN x # {}

\* ------------------------------------------------------------ input domains
TeamIds == {1, 2, 3}
GameIds == {1, 2}
Days == 0 .. MaxDay
DayNames == <<"2025-06-01", "2025-06-02", "2025-06-03", "2025-06-04">>

\* datetime.today().strftime('%Y-%m-%d') on day d of the clock.
strftime(d) == DayNames[d + 1]

\* Sequences over S of length 0 .. n.
SeqUpTo(S, n) == UNION {[1 .. k -> S] : k \in 0 .. n}

\* Sequences that do not repeat an element.
Distinct(s) == \A i, j \in 1 .. Len(s) : i # j => s[i] # s[j]

Team(i) == [id |-> i, name |-> <<"Team", i>>, abbreviation |-> <<"T", i>>]
Teams == {Team(i) : i \in TeamIds}
TeamLists == {s \in SeqUpTo(Teams, MaxTeams) : Distinct(s)}

\* A Game of the provider's schedule; winning_pitcher is an optional key.
GameBase(g, h, a, st) ==
    [game_id |-> g, game_date |-> "2025-06-01",
     home_id |-> h, home_name |-> <<"Team", h>>, home_score |-> g,
     away_id |-> a, away_name |-> <<"Team", a>>, away_score |-> 0,
     status |-> st, winning_team |-> <<"Team", h>>, losing_team |-> <<"Team", a>>]
GameWP(g, h, a, st, wp) ==
    [k \in DOMAIN GameBase(g, h, a, st) \cup {"winning_pitcher"} |->
        IF k = "winning_pitcher" THEN wp ELSE GameBase(g, h, a, st)[k]]

\* Schedules of the team tools: every id, the three pairings 1-2, 2-3, 3-1
\* (each team is home in one and away in another).
Pairings == {<<h, (h % 3) + 1>> : h \in TeamIds}
TeamGames == {GameBase(g, p[1], p[2], "Final") : g \in GameIds, p \in Pairings}
TeamSchedules == SeqUpTo(TeamGames, MaxGames)

\* Schedules of get_daily_results: every id and status, with and without
\* the winning_pitcher key.
Statuses == {"Final", "In Progress", "Game Over"}
DailyGames ==
    {GameBase(g, 1, 2, st) : g \in GameIds, st \in Statuses}
    \cup {GameWP(g, 1, 2, st, "Kershaw") : g \in GameIds, st \in Statuses}
DailySchedules == SeqUpTo(DailyGames, MaxDailyGames)

DateArgs == {None, Some("2025-06-01")}
TeamIdArgs == {None} \cup {Some(i) : i \in TeamIds}
\* Team ids handed to find_games_by_team_id: 9 plays in no game.
SearchIds == TeamIds \cup {9}
TeamNameArgs == {"Los Angeles Dodgers", "Nonexistent Team X"}
Resp(S) == {Ok(v) : v \in S} \cup {Fail}
PlayLists == {<<>>, <<"play">>}
HighlightLists == {<<>>, <<"clip">>}
NameArgs(n) == {None, Some(n)}
PlayerTables == {<<>>, <<[name_last |-> "ohtani", name_first |-> "shohei", key_mlbam |-> 660271]>>}
LookupValues == {"Ohtani", "Betts"}
PlayerInfos == {<<>>, <<[id |-> 660271, fullName |-> "Shohei Ohtani"]>>}
Seasons == {2008, 2024}
PaceReports == {"2008 Game Pace Stats", "2024 Game Pace Stats"}

\* pc       "idle": waiting for a call; "done": a handler has run to its end
\* tool     the handler that ran
\* args     its arguments, in the order of its signature
\* calls    the provider calls it made, in order, each with the response
\* stdout   what it printed
\* outcome  how it ended: a returned value, a returned None, a raised error
\* today    the calendar day the clock shows
\* started  the calendar day on which the handler was entered
VARIABLES pc, tool, args, calls, stdout, outcome, today, started
vars == <<pc, tool, args, calls, stdout, outcome, today, started>>

\* What one run of a handler did: the provider calls it made, in order, each
\* with the provider's response; what it printed; how it ended.
Exec(c, s, o) == [calls |-> c, stdout |-> s, outcome |-> o]

\* ---------------------------------------------------------------- handlers
\* Mutant: the scan keeps the last matching game instead of the first.
find_games_last(games_data, team_id) ==
    LET hits == {i \in 1 .. Len(games_data) :
                    games_data[i].home_id = team_id \/ games_data[i].away_id = team_id}
    IN IF hits = {} THEN PyNone
       ELSE games_data[CHOOSE i \in hits : \A j \in hits : i >= j]

\* Mutant: the scan returns the first game without testing the team.
find_games_untested(games_data, team_id) ==
    IF Len(games_data) = 0 THEN PyNone ELSE games_data[1]

find_games_by_team_id(games_data, team_id) ==
    LET hits == {i \in 1 .. Len(games_data) :
                    games_data[i].home_id = team_id \/ games_data[i].away_id = team_id}
    IN IF hits = {} THEN PyNone
       ELSE games_data[CHOOSE i \in hits : \A j \in hits : i <= j]

\* Mutant: an empty lookup is answered defensively with None.
run_look_up_team_defensive(team_name, resp) ==
    LET call == [op |-> "lookup_team", args |-> <<team_name>>,
                 kw |-> [activeStatus |-> "Y"], resp |-> resp]
    IN IF ~resp.ok THEN Exec(<<call>>, <<>>, Raise(resp.exc))
       ELSE IF Len(resp.val) = 0
            THEN Exec(<<call>>, <<[out |-> resp.val]>>, ReturnNone)
            ELSE Exec(<<call>>, <<[out |-> resp.val]>>, Return(resp.val[1]))

run_look_up_team(team_name, resp) ==
    LET call == [op |-> "lookup_team", args |-> <<team_name>>,
                 kw |-> [activeStatus |-> "Y"], resp |-> resp]
    IN IF ~resp.ok THEN Exec(<<call>>, <<>>, Raise(resp.exc))
       ELSE IF Len(resp.val) = 0
            THEN Exec(<<call>>, <<[out |-> resp.val]>>, Raise("IndexError"))
            ELSE Exec(<<call>>, <<[out |-> resp.val]>>, Return(resp.val[1]))

\* The DailySummary of one game: MVP is game.get("winning_pitcher", "N/A").
DailySummary(game) ==
    [date |-> game.game_date,
     home_team |-> game.home_name, home_score |-> game.home_score,
     away_team |-> game.away_name, away_score |-> game.away_score,
     winning_team |-> game.winning_team, losing_team |-> game.losing_team,
     MVP |-> IF "winning_pitcher" \in DOMAIN game THEN game.winning_pitcher ELSE "N/A"]

\* Mutant: the loop summarises every game, whatever its status.
RECURSIVE DailyResultsUnfiltered(_)
DailyResultsUnfiltered(schedule) ==
    IF schedule = <<>> THEN <<>>
    ELSE <<DailySummary(Head(schedule))>> \o DailyResultsUnfiltered(Tail(schedule))

\* The loop of get_daily_results over the schedule.
RECURSIVE DailyResults(_)
DailyResults(schedule) ==
    IF schedule = <<>> THEN <<>>
    ELSE IF Head(schedule).status = "Final"
         THEN <<DailySummary(Head(schedule))>> \o DailyResults(Tail(schedule))
         ELSE DailyResults(Tail(schedule))

run_get_daily_results(date, now, resp) ==
    LET d == IF date = None THEN strftime(now) ELSE date[1]
        call == [op |-> "schedule", args |-> <<>>,
                 kw |-> [start_date |-> d, end_date |-> d], resp |-> resp]
    IN IF ~resp.ok THEN Exec(<<call>>, <<>>, Raise(resp.exc))
       ELSE Exec(<<call>>, <<>>, Return(DailyResults(resp.val)))

\* now1 and now2 are what the clock shows at the first and at the second
\* datetime.today() of the handler.
run_get_mlb_schedule(start_date, end_date, team_id, now1, now2, resp) ==
    LET s == IF start_date = None THEN strftime(now1) ELSE start_date[1]
        e == IF end_date = None THEN strftime(now2) ELSE end_date[1]
        call == IF team_id # None
                THEN [op |-> "schedule", args |-> <<>>,
                      kw |-> [team |-> team_id[1], start_date |-> s, end_date |-> e],
                      resp |-> resp]
                ELSE [op |-> "schedule", args |-> <<>>,
                      kw |-> [start_date |-> s, end_date |-> e], resp |-> resp]
    IN IF ~resp.ok THEN Exec(<<call>>, <<>>, Raise(resp.exc))
       ELSE Exec(<<call>>, <<>>, Return(resp.val))

\* Mutant: the two responses land in each other's field.
run_game_result_swapped(game, plays, highlights) ==
    LET gamePk == game.game_id
        c1 == [op |-> "game_scoring_plays", args |-> <<gamePk>>, resp |-> plays]
        c2 == [op |-> "game_highlights", args |-> <<gamePk>>, resp |-> highlights]
    IN IF ~plays.ok THEN Exec(<<c1>>, <<>>, Raise(plays.exc))
       ELSE IF ~highlights.ok THEN Exec(<<c1, c2>>, <<>>, Raise(highlights.exc))
       ELSE Exec(<<c1, c2>>, <<>>,
                 Return([scoring_plays |-> highlights.val, game_highlights |-> plays.val]))

\* Mutant: a failed highlights request is swallowed, as get_game_highlights does.
run_game_result_swallow(game, plays, highlights) ==
    LET gamePk == game.game_id
        c1 == [op |-> "game_scoring_plays", args |-> <<gamePk>>, resp |-> plays]
        c2 == [op |-> "game_highlights", args |-> <<gamePk>>, resp |-> highlights]
    IN IF ~plays.ok THEN Exec(<<c1>>, <<>>, Raise(plays.exc))
       ELSE IF ~highlights.ok THEN Exec(<<c1, c2>>, <<>>, ReturnNone)
       ELSE Exec(<<c1, c2>>, <<>>,
                 Return([scoring_plays |-> plays.val, game_highlights |-> highlights.val]))

\* The result aggregation of mlb_team_result for a matched game.
run_game_result(game, plays, highlights) ==
    LET gamePk == game.game_id
        c1 == [op |-> "game_scoring_plays", args |-> <<gamePk>>, resp |-> plays]
        c2 == [op |-> "game_highlights", args |-> <<gamePk>>, resp |-> highlights]
    IN IF ~plays.ok THEN Exec(<<c1>>, <<>>, Raise(plays.exc))
       ELSE IF ~highlights.ok THEN Exec(<<c1, c2>>, <<>>, Raise(highlights.exc))
       ELSE Exec(<<c1, c2>>, <<>>,
                 Return([scoring_plays |-> plays.val, game_highlights |-> highlights.val]))

\* Mutant: the schedule is fetched before the team lookup is looked at.
run_mlb_team_result_eager(team_name, date, now1, now2, teams, sched, plays, highlights) ==
    LET e1 == run_look_up_team(team_name, teams)
        e0 == run_get_mlb_schedule(date, date, None, now1, now2, sched)
    IN IF e1.outcome.kind = "raise" THEN Exec(e1.calls \o e0.calls, e1.stdout, e1.outcome)
       ELSE LET teamInfo == e1.outcome.val
                e2 == run_get_mlb_schedule(date, date, Some(teamInfo.id), now1, now2, sched)
            IN IF e2.outcome.kind = "raise"
               THEN Exec(e1.calls \o e2.calls, e1.stdout, e2.outcome)
               ELSE LET games == e2.outcome.val
                        game == find_games_by_team_id(games, teamInfo.id)
                    IN IF Truthy(game)
                       THEN LET e3 == run_game_result(game, plays, highlights)
                            IN Exec(e1.calls \o e2.calls \o e3.calls, e1.stdout, e3.outcome)
                       ELSE Exec(e1.calls \o e2.calls, e1.stdout, ReturnNone)

run_mlb_team_result(team_name, date, now1, now2, teams, sched, plays, highlights) ==
    LET e1 == run_look_up_team(team_name, teams)
    IN IF e1.outcome.kind = "raise" THEN e1
       ELSE LET teamInfo == e1.outcome.val
                e2 == run_get_mlb_schedule(date, date, Some(teamInfo.id), now1, now2, sched)
            IN IF e2.outcome.kind = "raise"
               THEN Exec(e1.calls \o e2.calls, e1.stdout, e2.outcome)
               ELSE LET games == e2.outcome.val
                        game == find_games_by_team_id(games, teamInfo.id)
                    IN IF Truthy(game)
                       THEN LET e3 == run_game_result(game, plays, highlights)
                            IN Exec(e1.calls \o e2.calls \o e3.calls, e1.stdout, e3.outcome)
                       ELSE Exec(e1.calls \o e2.calls, e1.stdout, ReturnNone)

\* Mutant: the fuzzy argument is passed on when both names are given.
run_player_id_lookup_fuzzy(last_name, first_name, fuzzy, resp) ==
    LET done(call) == IF ~resp.ok THEN Exec(<<call>>, <<>>, Raise(resp.exc))
                      ELSE Exec(<<call>>, <<>>, Return(resp.val))
    IN IF last_name # None /\ first_name # None
       THEN done([op |-> "playerid_lookup", args |-> <<last_name[1], first_name[1]>>,
                  kw |-> [fuzzy |-> fuzzy], resp |-> resp])
       ELSE IF last_name # None /\ first_name = None
       THEN done([op |-> "playerid_lookup", args |-> <<last_name[1]>>,
                  kw |-> [fuzzy |-> TRUE], resp |-> resp])
       ELSE IF last_name = None /\ first_name # None
       THEN done([op |-> "playerid_lookup", args |-> <<first_name[1]>>,
                  kw |-> [fuzzy |-> TRUE], resp |-> resp])
       ELSE Exec(<<>>, <<>>, ReturnNone)

run_player_id_lookup(last_name, first_name, fuzzy, resp) ==
    LET done(call) == IF ~resp.ok THEN Exec(<<call>>, <<>>, Raise(resp.exc))
                      ELSE Exec(<<call>>, <<>>, Return(resp.val))
    IN IF last_name # None /\ first_name # None
       THEN done([op |-> "playerid_lookup", args |-> <<last_name[1], first_name[1]>>,
                  kw |-> [fuzzy |-> FALSE], resp |-> resp])
       ELSE IF last_name # None /\ first_name = None
       THEN done([op |-> "playerid_lookup", args |-> <<last_name[1]>>,
                  kw |-> [fuzzy |-> TRUE], resp |-> resp])
       ELSE IF last_name = None /\ first_name # None
       THEN done([op |-> "playerid_lookup", args |-> <<first_name[1]>>,
                  kw |-> [fuzzy |-> TRUE], resp |-> resp])
       ELSE Exec(<<>>, <<>>, ReturnNone)

run_get_player_info(lookup_value, resp) ==
    LET call == [op |-> "lookup_player", args |-> <<lookup_value>>, resp |-> resp]
    IN IF resp.ok THEN Exec(<<call>>, <<>>, Return(resp.val))
       ELSE Exec(<<call>>,
                 <<[out |-> <<"Error retrieving player information: ", resp.exc>>]>>,
                 ReturnNone)

run_get_game_highlights(game_id, resp) ==
    LET call == [op |-> "game_highlights", args |-> <<game_id>>, resp |-> resp]
    IN IF resp.ok THEN Exec(<<call>>, <<>>, Return(resp.val))
       ELSE Exec(<<call>>,
                 <<[out |-> <<"Error retrieving game highlights: ", resp.exc>>]>>,
                 ReturnNone)

\* Mutant: the provider's failure is not caught.
run_game_pace_uncaught(season, resp) ==
    LET call == [op |-> "game_pace", args |-> <<season>>, resp |-> resp]
    IN IF resp.ok THEN Exec(<<call>>, <<>>, Return(resp.val))
       ELSE Exec(<<call>>, <<>>, Raise(resp.exc))

run_game_pace(season, resp) ==
    LET call == [op |-> "game_pace", args |-> <<season>>, resp |-> resp]
    IN IF resp.ok THEN Exec(<<call>>, <<>>, Return(resp.val))
       ELSE Exec(<<call>>,
                 <<[out |-> <<"Error calling statsapi.game_pace: ", resp.exc>>]>>,
                 ReturnNone)

\* ----------------------------------------------------------------- actions
Init ==
    /\ pc = "idle"
    /\ tool = "none"
    /\ args = <<>>
    /\ calls = <<>>
    /\ stdout = <<>>
    /\ outcome = ReturnNone
    /\ today = 0
    /\ started = 0

Finish(name, a, e) ==
    /\ pc' = "done"
    /\ tool' = name
    /\ args' = a
    /\ calls' = e.calls
    /\ stdout' = e.stdout
    /\ outcome' = e.outcome
    /\ started' = today

\* A direct call of the module-level function find_games_by_team_id.
find_games ==
    /\ pc = "idle"
    /\ \E games_data \in TeamSchedules, team_id \in SearchIds :
          LET game == find_games_by_team_id(games_data, team_id)
          IN Finish("find_games_by_team_id", <<games_data, team_id>>,
                    Exec(<<>>, <<>>, IF game = PyNone THEN ReturnNone ELSE Return(game)))
    /\ UNCHANGED today

look_up_team ==
    /\ pc = "idle"
    /\ \E team_name \in TeamNameArgs, resp \in Resp(TeamLists) :
          Finish("look_up_team", <<team_name>>, run_look_up_team(team_name, resp))
    /\ UNCHANGED today

get_daily_results ==
    /\ pc = "idle"
    /\ \E date \in DateArgs, resp \in Resp(DailySchedules) :
          Finish("get_daily_results", <<date>>, run_get_daily_results(date, today, resp))
    /\ UNCHANGED today

\* The days the clock may show later in a call that began on day d.
Later(d) == {n \in Days : d <= n /\ n <= d + 1}

get_mlb_schedule ==
    /\ pc = "idle"
    /\ \E start_date \in DateArgs, end_date \in DateArgs, team_id \in TeamIdArgs,
          now2 \in Later(today), resp \in Resp(TeamSchedules) :
          /\ Finish("get_mlb_schedule", <<start_date, end_date, team_id>>,
                    run_get_mlb_schedule(start_date, end_date, team_id, today, now2, resp))
          /\ today' = now2

mlb_team_result ==
    /\ pc = "idle"
    /\ \E team_name \in TeamNameArgs, date \in DateArgs, now2 \in Later(today),
          teams \in Resp(TeamLists), sched \in Resp(TeamSchedules),
          plays \in Resp(PlayLists), highlights \in Resp(HighlightLists) :
          /\ Finish("mlb_team_result", <<team_name, date>>,
                    run_mlb_team_result(team_name, date, today, now2,
                                        teams, sched, plays, highlights))
          /\ today' = now2

player_id_lookup ==
    /\ pc = "idle"
    /\ \E last_name \in NameArgs("Ohtani"), first_name \in NameArgs("Shohei"),
          fuzzy \in BOOLEAN, resp \in Resp(PlayerTables) :
          Finish("player_id_lookup", <<last_name, first_name, fuzzy>>,
                 run_player_id_lookup(last_name, first_name, fuzzy, resp))
    /\ UNCHANGED today

get_player_info ==
    /\ pc = "idle"
    /\ \E lookup_value \in LookupValues, resp \in Resp(PlayerInfos) :
          Finish("get_player_info", <<lookup_value>>,
                 run_get_player_info(lookup_value, resp))
    /\ UNCHANGED today

get_game_highlights ==
    /\ pc = "idle"
    /\ \E game_id \in GameIds, resp \in Resp(HighlightLists) :
          Finish("get_game_highlights", <<game_id>>,
                 run_get_game_highlights(game_id, resp))
    /\ UNCHANGED today

game_pace ==
    /\ pc = "idle"
    /\ \E season \in Seasons, resp \in Resp(PaceReports) :
          Finish("game_pace", <<season>>, run_game_pace(season, resp))
    /\ UNCHANGED today

\* The host runtime hands the result to the caller and waits for the next call.
Respond ==
    /\ pc = "done"
    /\ pc' = "idle"
    /\ tool' = "none"
    /\ args' = <<>>
    /\ calls' = <<>>
    /\ stdout' = <<>>
    /\ outcome' = ReturnNone
    /\ started' = today
    /\ UNCHANGED today

\* Midnight passes between two calls.
Tick ==
    /\ pc = "idle"
    /\ today < MaxDay
    /\ today' = today + 1
    /\ started' = today + 1
    /\ UNCHANGED <<pc, tool, args, calls, stdout, outcome>>

Next ==
    \/ find_games
    \/ look_up_team
    \/ get_daily_results
    \/ get_mlb_schedule
    \/ mlb_team_result
    \/ player_id_lookup
    \/ get_player_info
    \/ get_game_highlights
    \/ game_pace
    \/ Respond
    \/ Tick

Spec == Init /\ [][Next]_vars

\* ------------------------------------------------------------------ claims
Done(t) == pc = "done" /\ tool = t

\* Whether the team plays in the game, at home or away.
Plays(game, id) == game.home_id = id \/ game.away_id = id

\* The call of mlb_team_result resolved the team: the first provider call is
\* the team lookup and it answered with a non-empty list.
Resolved ==
    /\ Done("mlb_team_result")
    /\ Len(calls) >= 1
    /\ calls[1].op = "lookup_team"
    /\ calls[1].resp.ok
    /\ Len(calls[1].resp.val) > 0

\* ... and then fetched a schedule: the second provider call answered.
Fetched ==
    /\ Resolved
    /\ Len(calls) >= 2
    /\ calls[2].op = "schedule"
    /\ calls[2].resp.ok

ResolvedId == calls[1].resp.val[1].id
FetchedGames == calls[2].resp.val
MatchIdx == {i \in 1 .. Len(FetchedGames) : Plays(FetchedGames[i], ResolvedId)}

\* The positions of the provider calls of one operation.
CallsOf(op) == {i \in 1 .. Len(calls) : calls[i].op = op}

\* C1: find_games_by_team_id returns the game at the smallest index whose
\* home_id or away_id is the team id, only that game, and returns None, without
\* an error, when no game (or an empty list) has the team.
C1_FirstMatch ==
    Done("find_games_by_team_id") =>
        LET games == args[1]
            id == args[2]
            hits == {i \in 1 .. Len(games) : Plays(games[i], id)}
        IN /\ outcome.kind # "raise"
           /\ hits = {} => outcome = ReturnNone
           /\ hits # {} =>
                \E i \in hits :
                    /\ \A j \in 1 .. (i - 1) : ~Plays(games[j], id)
                    /\ outcome = Return(games[i])

\* A doubleheader: two different games of the team, the first one returned.
C1_Witness ==
    /\ Done("find_games_by_team_id")
    /\ Len(args[1]) = 2
    /\ args[1][1] # args[1][2]
    /\ Plays(args[1][1], args[2])
    /\ Plays(args[1][2], args[2])
    /\ outcome = Return(args[1][1])

\* C2: look_up_team returns the first element of a non-empty lookup response
\* unchanged; an empty response ends in a raised IndexError, never in None.
C2_FirstTeamOrError ==
    (Done("look_up_team") /\ calls[1].resp.ok) =>
        /\ Len(calls) = 1
        /\ calls[1].op = "lookup_team"
        /\ Len(calls[1].resp.val) > 0 => outcome = Return(calls[1].resp.val[1])
        /\ Len(calls[1].resp.val) = 0 => outcome = Raise("IndexError")

C2_Witness ==
    /\ Done("look_up_team")
    /\ calls[1].resp.ok
    /\ calls[1].resp.val = <<>>
    /\ outcome.kind = "raise"

\* C3: when the team lookup of mlb_team_result answers with an empty list, the
\* call ends in the propagated error (not in None) and has issued no schedule,
\* no scoring-plays and no highlights request.
C3_FailFast ==
    (/\ Done("mlb_team_result")
     /\ calls[1].op = "lookup_team"
     /\ calls[1].resp.ok
     /\ calls[1].resp.val = <<>>) =>
        /\ outcome = Raise("IndexError")
        /\ CallsOf("schedule") = {}
        /\ CallsOf("game_scoring_plays") = {}
        /\ CallsOf("game_highlights") = {}

C3_Witness ==
    /\ Done("mlb_team_result")
    /\ calls[1].resp.ok
    /\ calls[1].resp.val = <<>>
    /\ outcome.kind = "raise"
    /\ Len(calls) = 1

\* C4: when the team resolves and the fetched schedule has no game of the team
\* (an empty schedule included), mlb_team_result returns None without an error
\* and calls neither scoring plays nor highlights.
C4_NoGameNone ==
    (Fetched /\ MatchIdx = {}) =>
        /\ outcome = ReturnNone
        /\ CallsOf("game_scoring_plays") = {}
        /\ CallsOf("game_highlights") = {}

\* A non-empty schedule of other teams' games.
C4_Witness ==
    /\ Fetched
    /\ Len(FetchedGames) > 0
    /\ MatchIdx = {}
    /\ outcome = ReturnNone

\* The first game of the team in the fetched schedule.
FirstMatch == FetchedGames[CHOOSE i \in MatchIdx : \A j \in MatchIdx : i <= j]

\* The request of call i is the operation op for the matched game's id.
ForMatch(i, op) == calls[i].op = op /\ calls[i].args = <<FirstMatch.game_id>>

\* C5 as claimed: whenever the team resolves and the schedule has a game of the
\* team, scoring plays and highlights are each requested exactly once for the
\* first such game and the composite of the two responses is returned.
C5_AsClaimed ==
    (Fetched /\ MatchIdx # {}) =>
        /\ Cardinality(CallsOf("game_scoring_plays")) = 1
        /\ Cardinality(CallsOf("game_highlights")) = 1
        /\ Len(calls) = 4
        /\ ForMatch(3, "game_scoring_plays")
        /\ ForMatch(4, "game_highlights")
        /\ calls[3].resp.ok
        /\ calls[4].resp.ok
        /\ outcome = Return([scoring_plays |-> calls[3].resp.val,
                             game_highlights |-> calls[4].resp.val])

\* C5, amended: whenever the team resolves and the schedule has a game of the
\* team, scoring plays is requested exactly once for the first such game; if
\* that request succeeds, highlights is requested exactly once for the same
\* game; if both succeed the composite of the two responses is returned (also
\* when they are empty); a failure of either ends the call in that error, and
\* after a failed scoring-plays request no highlights request is made.
C5_Composite ==
    (Fetched /\ MatchIdx # {}) =>
        /\ CallsOf("game_scoring_plays") = {3}
        /\ ForMatch(3, "game_scoring_plays")
        /\ outcome # ReturnNone
        /\ ~calls[3].resp.ok =>
              /\ Len(calls) = 3
              /\ outcome = Raise(calls[3].resp.exc)
        /\ calls[3].resp.ok =>
              /\ Len(calls) = 4
              /\ CallsOf("game_highlights") = {4}
              /\ ForMatch(4, "game_highlights")
              /\ ~calls[4].resp.ok => outcome = Raise(calls[4].resp.exc)
              /\ calls[4].resp.ok =>
                    outcome = Return([scoring_plays |-> calls[3].resp.val,
                                      game_highlights |-> calls[4].resp.val])

\* The team's game is the second of the schedule, the first being another
\* pairing; plays are empty, highlights are not; the composite is returned.
C5_Witness ==
    /\ Fetched
    /\ MatchIdx = {2}
    /\ Len(calls) = 4
    /\ calls[3].resp = Ok(<<>>)
    /\ calls[4].resp = Ok(<<"clip">>)
    /\ calls[3].args = <<FetchedGames[2].game_id>>
    /\ FetchedGames[1].game_id # FetchedGames[2].game_id
    /\ outcome = Return([scoring_plays |-> <<>>, game_highlights |-> <<"clip">>])

\* The positions of the Final games of a schedule.
FinalIdx(schedule) == {i \in 1 .. Len(schedule) : schedule[i].status = "Final"}

\* The position in the schedule of its k-th Final game.
KthFinal(schedule, k) ==
    CHOOSE i \in FinalIdx(schedule) :
        Cardinality({j \in FinalIdx(schedule) : j <= i}) = k

\* C6: get_daily_results returns one DailySummary per game with status
\* "Final", none for another status, in the provider's order; MVP is the
\* game's winning_pitcher, or "N/A" when the game has no such field.
C6_FinalOnly ==
    (Done("get_daily_results") /\ calls[1].resp.ok) =>
        LET schedule == calls[1].resp.val
        IN /\ outcome.kind = "return"
           /\ Len(outcome.val) = Cardinality(FinalIdx(schedule))
           /\ \A k \in 1 .. Len(outcome.val) :
                LET game == schedule[KthFinal(schedule, k)]
                    summary == outcome.val[k]
                IN /\ summary.home_score = game.home_score
                   /\ summary.home_team = game.home_name
                   /\ summary.away_team = game.away_name
                   /\ summary.date = game.game_date
                   /\ "winning_pitcher" \in DOMAIN game =>
                         summary.MVP = game.winning_pitcher
                   /\ "winning_pitcher" \notin DOMAIN game => summary.MVP = "N/A"

\* Final, In Progress, Final: two summaries, one with a pitcher, one without.
C6_Witness ==
    /\ Done("get_daily_results")
    /\ calls[1].resp.ok
    /\ Len(calls[1].resp.val) = 3
    /\ calls[1].resp.val[1].status = "Final"
    /\ calls[1].resp.val[2].status = "In Progress"
    /\ calls[1].resp.val[3].status = "Final"
    /\ calls[1].resp.val[1].game_id # calls[1].resp.val[3].game_id
    /\ outcome.kind = "return"
    /\ Len(outcome.val) = 2
    /\ outcome.val[1].MVP = "Kershaw"
    /\ outcome.val[2].MVP = "N/A"

BestEffortTools == {"get_player_info", "get_game_highlights", "game_pace"}

\* C8: get_player_info, get_game_highlights and game_pace make exactly one
\* provider call; its response is returned unchanged; its failure is answered
\* with None after one diagnostic message; no error reaches the caller.
C8_BestEffort ==
    (pc = "done" /\ tool \in BestEffortTools) =>
        /\ Len(calls) = 1
        /\ calls[1].args = args
        /\ outcome.kind # "raise"
        /\ calls[1].resp.ok => outcome = Return(calls[1].resp.val)
        /\ ~calls[1].resp.ok => (outcome = ReturnNone /\ Len(stdout) = 1)

C8_Witness ==
    /\ Done("game_pace")
    /\ ~calls[1].resp.ok
    /\ outcome = ReturnNone
    /\ Len(stdout) = 1

\* What get_mlb_schedule asks for when a date argument is absent: the day of
\* the call.
Defaulted(date) == IF date = None THEN strftime(started) ELSE date[1]

\* C9: get_mlb_schedule issues exactly one schedule request and returns its
\* response unchanged; an absent start or end date is the calendar date of the
\* call, so with both absent the window starts and ends on the same date; the
\* request has a team filter, the team id, exactly when a team id is given.
C9_ScheduleRequest ==
    Done("get_mlb_schedule") =>
        /\ Len(calls) = 1
        /\ calls[1].op = "schedule"
        /\ calls[1].resp.ok => outcome = Return(calls[1].resp.val)
        /\ calls[1].kw.start_date = Defaulted(args[1])
        /\ calls[1].kw.end_date = Defaulted(args[2])
        /\ (args[1] = None /\ args[2] = None) =>
              calls[1].kw.start_date = calls[1].kw.end_date
        /\ ("team" \in DOMAIN calls[1].kw) <=> (args[3] # None)
        /\ args[3] # None => calls[1].kw.team = args[3][1]

\* C10: in mlb_team_result a failed schedule, scoring-plays or highlights
\* request ends the call in that error: no partial composite, no None; a None
\* from mlb_team_result means that no game matched.  The same highlights
\* failure in get_game_highlights is answered with None.
C10_ErrorPolicy ==
    /\ Done("mlb_team_result") =>
          /\ \A i \in CallsOf("schedule") \cup CallsOf("game_scoring_plays")
                        \cup CallsOf("game_highlights") :
                ~calls[i].resp.ok => (i = Len(calls) /\ outcome = Raise(calls[i].resp.exc))
          /\ outcome.kind = "return" =>
                (Len(calls) = 4 /\ \A i \in 1 .. 4 : calls[i].resp.ok)
          /\ outcome = ReturnNone => (Fetched /\ MatchIdx = {})
    /\ (Done("get_game_highlights") /\ ~calls[1].resp.ok) => outcome = ReturnNone

\* The highlights request of mlb_team_result fails and the error is raised.
C10_Witness ==
    /\ Done("mlb_team_result")
    /\ Len(calls) = 4
    /\ calls[4].op = "game_highlights"
    /\ ~calls[4].resp.ok
    /\ outcome.kind = "raise"
====
